---- MODULE Spec2Model ----
(***************************************************************************)
(* Ingress observer operator (src/operator/ingress_observer.py) and report *)
(* receiver (src/receiver/app.py).                                         *)
(*                                                                         *)
(* The specifications of this module:                                      *)
(*   Spec       the observer as a state machine: the kopf index mutated by *)
(*              watch events, the background periodic_report_task, the     *)
(*              per-ingress periodic_report_handler timers, the probe, the *)
(*              executor that runs send_report, and a discrete clock.      *)
(*   LiveSpec   Spec with the fairness of the event loop.                  *)
(*   SpecTimers the watch events and the timer handlers of two resources.  *)
(*   SpecBuild  build_report as a pure function of an index, the secret    *)
(*              API's answers and the wall clock, over bounded inputs.     *)
(*   SpecCert   get_certificate_info over bounded inputs.                  *)
(*   SpecReceiver  the receiver's routes and its buffer.                   *)
(*                                                                         *)
(* Python values: a dict is a record (a missing key is a missing field),   *)
(* a list is a sequence, an optional string is the string or None, and an  *)
(* optional dict (certificate_info) is the record or Absent.               *)
(***************************************************************************)
EXTENDS Integers, Sequences, FiniteSets, TLC

\* ---------------------------------------------------------------------
\* Configuration (ingress_observer.py:19-21)
\* ---------------------------------------------------------------------
CLUSTER_NAME == "local-minikube"

\* REPORT_INTERVAL is read from the environment (default "45"); the model
\* runs the configuration REPORT_INTERVAL=3.  Time is counted in seconds.
REPORT_INTERVAL == 3

\* timedelta(days=90) in get_certificate_info, in days.
EXPIRY_DAYS == 90

\* ---------------------------------------------------------------------
\* Python values
\* ---------------------------------------------------------------------
\* None where a string is expected (dict.get on a missing key).
None == "<None>"

\* None where a dict is expected (get_certificate_info's "no certificate").
Absent == <<>>

\* Truthiness of an optional string: None and "" are falsy.
Truthy(s) == s # None /\ s # ""

\* d.get(k, default) on a dict modelled as a record.
Get(d, k, default) == IF k \in DOMAIN d THEN d[k] ELSE default

Min(a, b) == IF a < b THEN a ELSE b

\* None where a dict is expected, and None where a list is expected (a
\* JSON null in a resource body).  Values that meet in one position must
\* be comparable, so the first is a record and the second a sequence.
Null == [null |-> TRUE]
NullList == <<[nulllist |-> TRUE]>>

\* ---------------------------------------------------------------------
\* extract_hosts / get_tls_secret_name (ingress_observer.py:58-87)
\* ---------------------------------------------------------------------
RECURSIVE HostsOfRules(_, _, _)
\* The loop "for rule in rules: host = rule.get('host'); if host: append".
HostsOfRules(rules, i, hosts) ==
    IF i > Len(rules) THEN hosts
    ELSE LET host == Get(rules[i], "host", None)
         IN  HostsOfRules(rules, i + 1,
                          IF Truthy(host) THEN Append(hosts, host) ELSE hosts)

\* Mutant: set semantics, a host already collected is not appended again.
RECURSIVE HostsOfRules_dedup(_, _, _)
HostsOfRules_dedup(rules, i, hosts) ==
    IF i > Len(rules) THEN hosts
    ELSE LET host == Get(rules[i], "host", None)
         IN  HostsOfRules_dedup(rules, i + 1,
                 IF Truthy(host) /\ \A j \in 1..Len(hosts) : hosts[j] # host
                 THEN Append(hosts, host) ELSE hosts)

extract_hosts_dedup(ingress_body) ==
    HostsOfRules_dedup(Get(Get(ingress_body, "spec", <<>>), "rules", <<>>), 1, <<>>)

\* Mutant: the truthiness test on the host is dropped.
extract_hosts_unfiltered(ingress_body) ==
    LET rules == Get(Get(ingress_body, "spec", <<>>), "rules", <<>>)
    IN  [i \in 1..Len(rules) |-> Get(rules[i], "host", None)]

extract_hosts(ingress_body) ==
    HostsOfRules(Get(Get(ingress_body, "spec", <<>>), "rules", <<>>), 1, <<>>)

\* extract_hosts raises: AttributeError on None.get when spec or a rule is
\* None (lines 65, 68), TypeError on "for rule in None" (line 67).
extract_hosts_raises(ingress_body) ==
    LET spec == Get(ingress_body, "spec", <<>>)
    IN  IF spec = Null THEN TRUE
        ELSE LET rules == Get(spec, "rules", <<>>)
             IN  IF rules = NullList THEN TRUE
                 ELSE \E i \in 1..Len(rules) : rules[i] = Null

\* get_tls_secret_name raises: AttributeError on None.get when spec or the
\* first tls block is None (lines 81, 84).  "if tls" takes tls = None as
\* no tls.
get_tls_secret_name_raises(ingress_body) ==
    LET spec == Get(ingress_body, "spec", <<>>)
    IN  IF spec = Null THEN TRUE
        ELSE LET tls == Get(spec, "tls", <<>>)
             IN  IF tls = NullList THEN FALSE
                 ELSE Len(tls) > 0 /\ tls[1] = Null

get_tls_secret_name(ingress_body) ==
    LET tls == Get(Get(ingress_body, "spec", <<>>), "tls", <<>>)
    IN  IF tls # NullList /\ Len(tls) > 0
        THEN Get(tls[1], "secretName", None) ELSE None

\* ---------------------------------------------------------------------
\* get_certificate_info (ingress_observer.py:90-119)
\*
\* api is the secret read API: api[<<namespace, secret_name>>] is what
\* core_v1_api.read_namespaced_secret does for that secret:
\*   [status |-> "ok", data |-> set of the secret's data keys]
\*   [status |-> "404"]        ApiException with status 404
\*   [status |-> "500"]        ApiException with another status
\*   [status |-> "exception"]  any other exception (transport error)
\* utcnow is the value datetime.utcnow() returns during the call, in days.
\* ---------------------------------------------------------------------
\* An exception leaving a function, where its value would be.
Raised == [raised |-> TRUE]

\* Mutant: only "404" is caught, any other failure of the read propagates.
get_certificate_info_raising(namespace, secret_name, api, utcnow) ==
    IF ~Truthy(secret_name) THEN Absent
    ELSE LET secret == api[<<namespace, secret_name>>]
         IN  IF secret.status = "ok"
             THEN IF secret.data # {} /\
                     ("tls.crt" \in secret.data \/ "ca.crt" \in secret.data)
                  THEN [name |-> secret_name, expires |-> utcnow + EXPIRY_DAYS]
                  ELSE Absent
             ELSE IF secret.status = "404" THEN Absent ELSE Raised

\* Mutant: a secret that was read yields a descriptor whatever its data.
get_certificate_info_anydata(namespace, secret_name, api, utcnow) ==
    IF ~Truthy(secret_name) THEN Absent
    ELSE LET secret == api[<<namespace, secret_name>>]
         IN  IF secret.status = "ok"
             THEN [name |-> secret_name, expires |-> utcnow + EXPIRY_DAYS]
             ELSE Absent

get_certificate_info(namespace, secret_name, api, utcnow) ==
    IF ~Truthy(secret_name) THEN Absent
    ELSE LET secret == api[<<namespace, secret_name>>]
         IN  IF secret.status = "ok"
             THEN IF secret.data # {} /\
                     ("tls.crt" \in secret.data \/ "ca.crt" \in secret.data)
                  THEN [name |-> secret_name, expires |-> utcnow + EXPIRY_DAYS]
                  ELSE Absent
             ELSE Absent    \* both except clauses log and fall through

\* ---------------------------------------------------------------------
\* build_report (ingress_observer.py:122-242)
\*
\* The index is a Python mapping in iteration order: a sequence of items
\* [key |-> <<namespace, name>>, bodies |-> the kopf Store of that key],
\* a Store being the sequence of the bodies indexed under the key.
\* clock gives the wall clock: the n-th read of datetime.utcnow() during
\* a build returns clock.start + clock.step * (n - 1).
\* ---------------------------------------------------------------------
utcnow(clock, n) == clock.start + clock.step * (n - 1)

\* One report entry per host (lines 223-233).
RECURSIVE EntriesOf(_, _, _, _, _)
EntriesOf(namespace, name, hosts, certificate_info, i) ==
    IF i > Len(hosts) THEN <<>>
    ELSE LET base == [namespace |-> namespace, name |-> name, host |-> hosts[i]]
             ingress_entry ==
                 IF certificate_info # Absent
                 THEN [namespace |-> namespace, name |-> name, host |-> hosts[i],
                       certificate |-> certificate_info]
                 ELSE base
         IN  <<ingress_entry>> \o
             EntriesOf(namespace, name, hosts, certificate_info, i + 1)

\* Mutant: the certificate is looked up again for every host.
RECURSIVE EntriesPerHostLookup(_, _, _, _, _, _, _)
EntriesPerHostLookup(namespace, name, hosts, secret_name, api, clock, n) ==
    IF hosts = <<>> THEN <<>>
    ELSE LET cert == get_certificate_info(namespace, secret_name, api,
                                          utcnow(clock, n))
             e == IF cert # Absent
                  THEN [namespace |-> namespace, name |-> name,
                        host |-> Head(hosts), certificate |-> cert]
                  ELSE [namespace |-> namespace, name |-> name,
                        host |-> Head(hosts)]
         IN  <<e>> \o EntriesPerHostLookup(namespace, name, Tail(hosts),
                                           secret_name, api, clock, n + 1)

ProcessItem_perhost(item, api, clock, nreads) ==
    LET namespace == item.key[1]
        name      == item.key[2]
    IN  IF item.bodies = <<>>
        THEN [entries |-> <<>>, lookups |-> <<>>, reads |-> 0]
        ELSE LET ingress_body    == item.bodies[1]
                 hosts           == extract_hosts(ingress_body)
                 tls_secret_name == get_tls_secret_name(ingress_body)
                 found ==
                     get_certificate_info(namespace, tls_secret_name, api, 0) # Absent
             IN  IF hosts = <<>>
                 THEN [entries |-> <<>>, lookups |-> <<>>, reads |-> 0]
                 ELSE IF Truthy(tls_secret_name)
                      THEN [entries |->
                                EntriesPerHostLookup(namespace, name, hosts,
                                    tls_secret_name, api, clock, nreads + 1),
                            lookups |->
                                [i \in 1..Len(hosts) |->
                                    <<namespace, tls_secret_name>>],
                            reads |-> IF found THEN Len(hosts) ELSE 0]
                      ELSE [entries |-> EntriesOf(namespace, name, hosts, Absent, 1),
                            lookups |-> <<>>, reads |-> 0]

\* Mutant: the "if not hosts: continue" test is dropped, and a resource
\* without hosts is reported with an empty host.
ProcessItem_nohostskip(item, api, clock, nreads) ==
    LET namespace == item.key[1]
        name      == item.key[2]
    IN  IF item.bodies = <<>>
        THEN [entries |-> <<>>, lookups |-> <<>>, reads |-> 0]
        ELSE LET ingress_body    == item.bodies[1]
                 hosts           == extract_hosts(ingress_body)
                 shown           == IF hosts = <<>> THEN <<"">> ELSE hosts
                 tls_secret_name == get_tls_secret_name(ingress_body)
                 certificate_info ==
                     IF Truthy(tls_secret_name)
                     THEN get_certificate_info(namespace, tls_secret_name, api,
                                               utcnow(clock, nreads + 1))
                     ELSE Absent
             IN  [entries |-> EntriesOf(namespace, name, shown, certificate_info, 1),
                  lookups |-> IF Truthy(tls_secret_name)
                              THEN <<<<namespace, tls_secret_name>>>>
                              ELSE <<>>,
                  reads   |-> IF certificate_info # Absent THEN 1 ELSE 0]

\* The body of the for loop for one item (lines 141-237): the entries it
\* appends, the secret lookups it makes and the number of times it reads
\* datetime.utcnow() (get_certificate_info reads it only when the secret
\* was read and has TLS data, line 105).  nreads is the number of reads of
\* datetime.utcnow() made before this item.
ProcessItem(item, api, clock, nreads) ==
    LET namespace == item.key[1]
        name      == item.key[2]
        skipped   == [entries |-> <<>>, lookups |-> <<>>, reads |-> 0,
                      faulted |-> FALSE]
        caught    == [entries |-> <<>>, lookups |-> <<>>, reads |-> 0,
                      faulted |-> TRUE]
    IN  IF item.bodies = <<>>                         \* "if not ingress_bodies"
        THEN skipped
        ELSE LET ingress_body    == item.bodies[1]    \* first item of the Store
                 hosts           == extract_hosts(ingress_body)
                 tls_secret_name == get_tls_secret_name(ingress_body)
                 certificate_info ==
                     IF Truthy(tls_secret_name)
                     THEN get_certificate_info(namespace, tls_secret_name, api,
                                               utcnow(clock, nreads + 1))
                     ELSE Absent
             IN  IF extract_hosts_raises(ingress_body)
                 THEN caught                          \* "except Exception"
                 ELSE IF hosts = <<>>                 \* "if not hosts: continue"
                 THEN skipped
                 ELSE IF get_tls_secret_name_raises(ingress_body)
                 THEN caught                          \* "except Exception"
                 ELSE [entries |-> EntriesOf(namespace, name, hosts,
                                             certificate_info, 1),
                       lookups |-> IF Truthy(tls_secret_name)
                                   THEN <<<<namespace, tls_secret_name>>>>
                                   ELSE <<>>,
                       reads   |-> IF certificate_info # Absent THEN 1 ELSE 0,
                       faulted |-> FALSE]

\* Mutant: the loop body has no "except: continue"; a fault in one item
\* ends the loop with what was collected before it.
RECURSIVE BuildLoop_abort(_, _, _, _, _)
BuildLoop_abort(ingresses_index, api, clock, i, acc) ==
    IF i > Len(ingresses_index) THEN acc
    ELSE LET r == ProcessItem(ingresses_index[i], api, clock, acc.reads)
         IN  IF r.faulted THEN acc
             ELSE BuildLoop_abort(ingresses_index, api, clock, i + 1,
                                  [entries |-> acc.entries \o r.entries,
                                   lookups |-> acc.lookups \o r.lookups,
                                   reads   |-> acc.reads + r.reads])

RECURSIVE BuildLoop(_, _, _, _, _)
\* "for key, ingress_bodies in ingresses_index.items()" from item i on.
BuildLoop(ingresses_index, api, clock, i, acc) ==
    IF i > Len(ingresses_index) THEN acc
    ELSE LET r == ProcessItem(ingresses_index[i], api, clock, acc.reads)
         IN  BuildLoop(ingresses_index, api, clock, i + 1,
                       [entries |-> acc.entries \o r.entries,
                        lookups |-> acc.lookups \o r.lookups,
                        reads   |-> acc.reads + r.reads])

\* The secret lookups one build makes, in order.
build_lookups(ingresses_index, api, clock) ==
    BuildLoop(ingresses_index, api, clock, 1,
              [entries |-> <<>>, lookups |-> <<>>, reads |-> 0]).lookups

\* Mutant: the early return of the empty index leaves the cluster out.
build_report_bare(ingresses_index, api, clock) ==
    IF ingresses_index = <<>>
    THEN [ingresses |-> <<>>]
    ELSE [cluster |-> CLUSTER_NAME,
          ingresses |-> BuildLoop(ingresses_index, api, clock, 1,
                                  [entries |-> <<>>, lookups |-> <<>>, reads |-> 0]).entries]

build_report(ingresses_index, api, clock) ==
    IF ingresses_index = <<>>                         \* "if not ingresses_index"
    THEN [cluster |-> CLUSTER_NAME, ingresses |-> <<>>]
    ELSE [cluster |-> CLUSTER_NAME,
          ingresses |-> BuildLoop(ingresses_index, api, clock, 1,
                                  [entries |-> <<>>, lookups |-> <<>>, reads |-> 0]).entries]


\* ---------------------------------------------------------------------
\* send_report (ingress_observer.py:245-266)
\*
\* outcome is what requests.post / raise_for_status do:
\*   "2xx"        the POST is answered with a success status
\*   "non2xx"     raise_for_status raises HTTPError (a RequestException)
\*   "transport"  requests.post raises ConnectionError or Timeout
\*                (RequestExceptions)
\*   "other"      an exception that is no RequestException
\* The result is [raised |-> FALSE, value |-> the bool returned] or
\* [raised |-> TRUE].
\* ---------------------------------------------------------------------
SendOutcomes == {"2xx", "non2xx", "transport", "other"}

\* Mutant: the except clause is missing, a failed POST propagates.
send_report_raising(report, outcome) ==
    IF outcome = "2xx" THEN [raised |-> FALSE, value |-> TRUE]
    ELSE [raised |-> TRUE]

send_report(report, outcome) ==
    CASE outcome = "2xx"       -> [raised |-> FALSE, value |-> TRUE]
      [] outcome = "non2xx"    -> [raised |-> FALSE, value |-> FALSE]
      [] outcome = "transport" -> [raised |-> FALSE, value |-> FALSE]
      [] OTHER                 -> [raised |-> TRUE]

\* ---------------------------------------------------------------------
\* The observer's world
\* ---------------------------------------------------------------------
\* Resource identities (namespace, name).
Keys == {<<"ns1", "ing1">>, <<"ns2", "ing2">>}

\* The resources the cluster holds in Spec.
WatchedKeys == {<<"ns1", "ing1">>}

\* Bodies the watch delivers in Spec.
BodyNoHosts == [spec |-> [rules |-> <<[path |-> "/"]>>]]
BodyOneHost ==
    [spec |-> [rules |-> <<[host |-> "a.example.com"]>>,
               tls   |-> <<[secretName |-> "cert1"]>>]]
WatchBodies == {BodyNoHosts, BodyOneHost}

\* What the secret API answers in Spec.
SecretFound    == [status |-> "ok", data |-> {"tls.crt", "tls.key"}]
SecretNotFound == [status |-> "404"]
WatchAPIs == {[r \in {<<k[1], "cert1">> : k \in Keys} |-> a] :
                a \in {SecretFound, SecretNotFound}}

\* In Spec the expiry is recorded relative to the instant of the build.
BuildClock == [start |-> 0, step |-> 0]

NoReport == [cluster |-> None, ingresses |-> <<>>]

\* No call of get_certificate_info was made yet; no request was answered yet.
NoCall == <<>>
NoResponse == [status |-> 0]

\* The receiver's request threads: app.run (app.py line 168) serves each
\* request in a thread of its own, so handlers of overlapping requests
\* interleave.  The model runs two of them: two requests overlap at most.
Threads == {"t1", "t2"}
Idle == [pc |-> "idle"]

\* Ages and countdowns are kept up to this value: every comparison the
\* code or a claim makes is against REPORT_INTERVAL or less.
AgeCap == REPORT_INTERVAL + 1

Older(age) == Min(age + 1, AgeCap)
Sooner(t)  == IF t > 0 THEN t - 1 ELSE 0

VARIABLES
    index,                      \* the kopf index "index_ingresses" (live)
    _ingresses_index_storage,   \* the global dict: its keys; the value under
                                \* 'index' is a reference to the live index
    last_report_age,            \* time.time() - _last_report_time
    bg,                         \* periodic_report_task
    tm,                         \* periodic_report_handler, per ingress
    hist,                       \* uptime: time since the process started;
                                \* since_send: time since send_report was
                                \* last called by any trigger;
                                \* since_pass: time since a timer handler
                                \* last passed its guard
    b_index,                    \* SpecBuild: the index build_report is given
    b_out,                      \* SpecBuild: the builds made of it, in order
    c_call,                     \* SpecCert: the last get_certificate_info call
    reports,                    \* receiver: the deque "reports"
    r_now,                      \* receiver: the last reading of its clock
    r_posted,                   \* receiver: the accepted payloads, in order
    r_resp,                     \* receiver: the last response it gave, with
                                \* the request it answers in field "to"
    r_req,                      \* receiver: each request thread's position
                                \* in its handler and the handler's locals
    r_len                       \* receiver: per thread, the buffer's length
                                \* right after the thread's last append
                                \* (0 once it has answered)

vars == <<index, _ingresses_index_storage, last_report_age, bg, tm, hist,
          b_index, b_out, c_call, reports, r_now, r_posted, r_resp,
          r_req, r_len>>

buildvars == <<b_index, b_out>>
certvars  == <<c_call>>
receivervars == <<reports, r_now, r_posted, r_resp, r_req, r_len>>
mainvars  == <<index, _ingresses_index_storage, last_report_age, bg, tm, hist>>

\* ---------------------------------------------------------------------
\* The index (index_ingresses, ingress_observer.py:274-279)
\* ---------------------------------------------------------------------
HasKey(idx, k) == \E i \in 1..Len(idx) : idx[i].key = k

RECURSIVE Without(_, _)
Without(idx, k) ==
    IF idx = <<>> THEN <<>>
    ELSE IF Head(idx).key = k THEN Without(Tail(idx), k)
         ELSE <<Head(idx)>> \o Without(Tail(idx), k)

\* Mutant: an update keeps the old body and adds the new one to the Store.
IndexPut_accumulate(idx, k, body) ==
    IF HasKey(idx, k)
    THEN [i \in 1..Len(idx) |->
            IF idx[i].key = k
            THEN [key |-> k, bodies |-> Append(idx[i].bodies, body)]
            ELSE idx[i]]
    ELSE Append(idx, [key |-> k, bodies |-> <<body>>])

\* The index after index_ingresses returned {(namespace, name): body} for a
\* created or updated resource: the resource's entry is replaced whole.
IndexPut(idx, k, body) ==
    IF HasKey(idx, k)
    THEN [i \in 1..Len(idx) |->
            IF idx[i].key = k THEN [key |-> k, bodies |-> <<body>>] ELSE idx[i]]
    ELSE Append(idx, [key |-> k, bodies |-> <<body>>])

\* The index after the resource is deleted.
IndexRemove(idx, k) == Without(idx, k)


\* ---------------------------------------------------------------------
\* Scheduling
\*
\* One asyncio event loop runs the watch callbacks, the probe, the timer
\* handlers and periodic_report_task; send_report runs in the executor.
\* build_report runs on the loop, and so do the secret reads it makes:
\* while one is outstanding (pc = "building") nothing else runs on the loop.
\* ---------------------------------------------------------------------
\* initial_delay=REPORT_INTERVAL of @kopf.timer (line 320).
TimerInitialDelay_short == REPORT_INTERVAL - 1
TimerInitialDelay == REPORT_INTERVAL

\* The delay after which kopf invokes a timer handler again when it
\* raised.  The decorator (line 320) gives no backoff, so kopf's default
\* of 60 seconds applies.
TimerBackoff == 60

\* "await asyncio.sleep(REPORT_INTERVAL)" before the loop (line 374).
TaskInitialDelay_short == REPORT_INTERVAL - 1
TaskInitialDelay == REPORT_INTERVAL

\* The guard of periodic_report_handler (line 347), on
\* age = current_time - _last_report_time.
\* "_last_report_time = current_time" (line 351): the age of the stamp
\* after an invocation passed the guard at age "age".
Stamp_unwritten(age) == age
Stamp(age) == age - age

TooSoon_never(age) == FALSE
TooSoon_short(age) == age < REPORT_INTERVAL - 2
TooSoon(age) == age < REPORT_INTERVAL - 1

\* What periodic_report_task can find when 'index' is not in the global
\* storage (lines 388-405), idx being the live index.  It depends on the
\* kopf module the operator runs with: kopf.registry.indexes holds the
\* index under 'index_ingresses' (lines 394, 397), or kopf has no
\* registry, the registry has no such index or the access raises, and
\* ingresses_index stays {} (lines 380, 394, 399-405).
RegistryFallback(idx) == {<<>>, idx}

\* Lines 381-405: the indexes periodic_report_task can build from.
TaskIndex_live(storage, idx) == {idx}
TaskIndex(storage, idx) ==
    IF "index" \in storage THEN {idx} ELSE RegistryFallback(idx)

\* The pc periodic_report_task moves to when send_report has returned or
\* raised (lines 420-429); both paths then sleep REPORT_INTERVAL.
AfterSend_retry(result) ==
    IF result.raised THEN "except_sleep"
    ELSE IF result.value THEN "sleep" ELSE "delivering"
AfterSend_die(result) == IF result.raised THEN "dead" ELSE "sleep"
AfterSend(result) == IF result.raised THEN "except_sleep" ELSE "sleep"

\* The sleep after a delivery (line 422).
SleepAfterSend == REPORT_INTERVAL

\* The awaits of periodic_report_task, where a cancellation is delivered:
\* the three sleeps (lines 374, 422, 429) and the wait for the executor
\* (line 420).  build_report has no await.
CancelPoints_any ==
    {"initial_sleep", "sleep", "except_sleep", "delivering", "building"}
CancelPoints == {"initial_sleep", "sleep", "except_sleep", "delivering"}

BgSleeping == bg.pc \in {"initial_sleep", "sleep", "except_sleep"}

\* Mutant: the secret reads of a build do not block the event loop.
LoopFree_always == TRUE

LoopFree == bg.pc # "building" /\ \A k \in Keys : tm[k].pc # "building"

BgDue == BgSleeping /\ bg.timer = 0
TimerDue(k) == tm[k].pc = "waiting" /\ tm[k].timer = 0

\* A trigger is a record
\*   pc        where its coroutine stands
\*   timer     the time left of the sleep it is in
\*   report    the report it built and is delivering
\*   age       the time since it last started a build
\*   send_age  the time since it last called send_report
\*   sends     the send_report calls of its current cycle
\*   result    what the last send_report of its current cycle returned
\*             ("True", "False"), "raised" or "none"; "skipped" when its
\*             last invocation returned at the guard
TimerOff == [pc |-> "off", timer |-> 0, report |-> NoReport,
             age |-> AgeCap, send_age |-> AgeCap, sends |-> 0,
             result |-> "none"]

\* What a trigger keeps of a send_report result.
ResultOf(result) ==
    IF result.raised THEN "raised"
    ELSE IF result.value THEN "True" ELSE "False"

\* Mutant: what is handed to send_report is a report without entries, not
\* the report that was built.
StartSend_empty(t) ==
    [t EXCEPT !.pc = "delivering", !.send_age = 0, !.sends = Min(t.sends + 1, 2),
              !.report = [cluster |-> CLUSTER_NAME, ingresses |-> <<>>]]

\* send_report is handed to the executor by trigger record t.
StartSend(t) ==
    [t EXCEPT !.pc = "delivering", !.send_age = 0, !.sends = Min(t.sends + 1, 2)]

Init ==
    /\ index = <<>>
    /\ _ingresses_index_storage = {}
    /\ last_report_age = AgeCap      \* _last_report_time = 0, time.time() is epoch time
    /\ bg = [pc |-> "initial_sleep", timer |-> TaskInitialDelay,
             report |-> NoReport, age |-> AgeCap, send_age |-> AgeCap,
             sends |-> 0, result |-> "none"]
    /\ tm = [k \in Keys |-> TimerOff]
    /\ hist = [uptime |-> 0, since_send |-> AgeCap, since_pass |-> AgeCap]
    /\ b_index = <<>>
    /\ b_out = <<>>
    /\ c_call = NoCall
    /\ reports = <<>>
    /\ r_now = 0
    /\ r_posted = <<>>
    /\ r_resp = NoResponse
    /\ r_req = [th \in Threads |-> Idle]
    /\ r_len = [th \in Threads |-> 0]

\* One second passes.  A sleep that has run out is woken before the clock
\* moves on, unless the loop is blocked.
Tick ==
    /\ ~(LoopFree /\ (BgDue \/ \E k \in Keys : TimerDue(k)))
    /\ bg' = [bg EXCEPT !.timer = Sooner(@), !.age = Older(@),
                        !.send_age = Older(@)]
    /\ tm' = [k \in Keys |->
                IF tm[k].pc = "off" THEN tm[k]
                ELSE [tm[k] EXCEPT !.timer = Sooner(@), !.age = Older(@),
                                   !.send_age = Older(@)]]
    /\ last_report_age' = Older(last_report_age)
    /\ hist' = [uptime     |-> Older(hist.uptime),
                since_send |-> Older(hist.since_send),
                since_pass |-> Older(hist.since_pass)]
    /\ UNCHANGED <<index, _ingresses_index_storage, buildvars, certvars, receivervars>>

\* A resource appears: ingress_created logs, index_ingresses indexes it, and
\* kopf starts the resource's timer with its initial delay.
IngressCreated(k, body) ==
    /\ LoopFree
    /\ ~HasKey(index, k)
    /\ tm[k].pc = "off"
    /\ index' = IndexPut(index, k, body)
    /\ tm' = [tm EXCEPT ![k] = [TimerOff EXCEPT !.pc = "waiting",
                                                !.timer = TimerInitialDelay]]
    /\ UNCHANGED <<_ingresses_index_storage, last_report_age, bg, hist, buildvars, certvars, receivervars>>

\* A resource changes: ingress_updated logs, index_ingresses re-indexes it.
IngressUpdated(k, body) ==
    /\ LoopFree
    /\ HasKey(index, k)
    /\ index' = IndexPut(index, k, body)
    /\ UNCHANGED <<_ingresses_index_storage, last_report_age, bg, tm, hist, buildvars, certvars, receivervars>>

\* A resource goes away: ingress_deleted logs, kopf drops it from the index
\* and stops its timer (a handler awaiting its delivery finishes first).
IngressDeleted(k) ==
    /\ LoopFree
    /\ HasKey(index, k)
    /\ index' = IndexRemove(index, k)
    /\ tm' = [tm EXCEPT ![k] = IF @.pc = "waiting" THEN TimerOff ELSE @]
    /\ UNCHANGED <<_ingresses_index_storage, last_report_age, bg, hist, buildvars, certvars, receivervars>>

\* periodic_report_probe (lines 308-317).
Probe ==
    /\ LoopFree
    /\ _ingresses_index_storage' = _ingresses_index_storage \cup {"index"}
    /\ UNCHANGED <<index, last_report_age, bg, tm, hist, buildvars, certvars, receivervars>>


\* periodic_report_handler (lines 320-361) for the timer of resource k, up
\* to the point where send_report is handed to the executor.  api is what
\* the secret API answers during the build.
TimerFire(k, api) ==
    /\ LoopFree
    /\ TimerDue(k)
    /\ _ingresses_index_storage' = _ingresses_index_storage \cup {"index"}
    /\ IF TooSoon(last_report_age)
       THEN /\ tm' = [tm EXCEPT ![k].timer = REPORT_INTERVAL,
                                ![k].result = "skipped"]
            /\ UNCHANGED <<last_report_age, hist>>
       ELSE LET report  == build_report(index, api, BuildClock)
                lookups == build_lookups(index, api, BuildClock)
                built   == [tm[k] EXCEPT !.report = report, !.sends = 0, !.age = 0,
                                         !.result = "none"]
            IN  /\ last_report_age' = Stamp(last_report_age)
                /\ IF lookups = <<>>
                   THEN /\ tm' = [tm EXCEPT ![k] = StartSend(built)]
                        /\ hist' = [hist EXCEPT !.since_send = 0, !.since_pass = 0]
                   ELSE /\ tm' = [tm EXCEPT ![k] = [built EXCEPT !.pc = "building"]]
                        /\ hist' = [hist EXCEPT !.since_pass = 0]
    /\ UNCHANGED <<index, bg, buildvars, certvars, receivervars>>

\* One pass of the "while True" body of periodic_report_task (lines 376-420)
\* up to the point where send_report is handed to the executor.  raises
\* says whether a step before the delivery raises an exception (which the
\* "except Exception" clause catches, lines 427-429).
BgFire(raises, api) ==
    /\ LoopFree
    /\ BgDue
    /\ \E ingresses_index \in TaskIndex(_ingresses_index_storage, index) :
       LET report  == build_report(ingresses_index, api, BuildClock)
           lookups == build_lookups(ingresses_index, api, BuildClock)
           built   == [bg EXCEPT !.report = report, !.sends = 0, !.age = 0,
                                 !.result = "none"]
       IN  IF raises
           THEN /\ bg' = [bg EXCEPT !.pc = AfterSend([raised |-> TRUE]),
                                    !.timer = REPORT_INTERVAL,
                                    !.report = NoReport, !.sends = 0, !.age = 0,
                                    !.result = "none"]
                /\ hist' = hist
           ELSE IF lookups = <<>>
                THEN /\ bg' = StartSend(built)
                     /\ hist' = [hist EXCEPT !.since_send = 0]
                ELSE /\ bg' = [built EXCEPT !.pc = "building"]
                     /\ hist' = hist
    /\ UNCHANGED <<index, _ingresses_index_storage, last_report_age, tm, buildvars, certvars, receivervars>>

\* The secret reads of the build in progress have returned: build_report
\* returns and send_report is handed to the executor.
LookupReturn ==
    /\ ~LoopFree
    /\ IF bg.pc = "building"
       THEN /\ bg' = StartSend(bg)
            /\ tm' = tm
       ELSE /\ \E k \in Keys :
                 /\ tm[k].pc = "building"
                 /\ tm' = [tm EXCEPT ![k] = StartSend(tm[k])]
            /\ bg' = bg
    /\ hist' = [hist EXCEPT !.since_send = 0]
    /\ UNCHANGED <<index, _ingresses_index_storage, last_report_age, buildvars, certvars, receivervars>>

\* send_report ends in the executor and periodic_report_task resumes
\* (lines 420-429).
BgSendDone(outcome) ==
    /\ LoopFree
    /\ bg.pc = "delivering"
    /\ LET result == send_report(bg.report, outcome)
           next   == AfterSend(result)
       IN  IF next = "delivering"
           THEN /\ bg' = StartSend([bg EXCEPT !.result = ResultOf(result)])
                /\ hist' = [hist EXCEPT !.since_send = 0]
           ELSE /\ bg' = [bg EXCEPT !.pc = next, !.timer = SleepAfterSend,
                                    !.report = NoReport,
                                    !.result = ResultOf(result)]
                /\ hist' = hist
    /\ UNCHANGED <<index, _ingresses_index_storage, last_report_age, tm, buildvars, certvars, receivervars>>

\* send_report ends in the executor and the timer handler of k ends
\* (line 361): it returns when send_report returned, and it raises what
\* send_report raised (the handler has no try).  kopf invokes the handler
\* again after interval=REPORT_INTERVAL when it returned and after
\* TimerBackoff when it raised, unless the resource is gone.
TimerSendDone(k, outcome) ==
    /\ LoopFree
    /\ tm[k].pc = "delivering"
    /\ LET result == send_report(tm[k].report, outcome)
       IN  tm' = [tm EXCEPT ![k] =
                    IF HasKey(index, k)
                    THEN [@ EXCEPT !.pc = "waiting",
                                   !.timer = IF result.raised THEN TimerBackoff
                                             ELSE REPORT_INTERVAL,
                                   !.report = NoReport,
                                   !.result = ResultOf(result)]
                    ELSE TimerOff]
    /\ UNCHANGED <<index, _ingresses_index_storage, last_report_age, bg, hist, buildvars, certvars, receivervars>>

\* The task is cancelled: CancelledError is raised at the await the task
\* is suspended in, logged and re-raised (lines 424-426).  The executor
\* still runs a send_report that was handed to it; its result is dropped.
Cancel ==
    /\ \A k \in Keys : tm[k].pc # "building"
    /\ bg.pc \in CancelPoints
    /\ bg' = [bg EXCEPT !.pc = "cancelled", !.timer = 0]
    /\ UNCHANGED <<index, _ingresses_index_storage, last_report_age, tm, hist, buildvars, certvars, receivervars>>

Next ==
    \/ Tick
    \/ \E k \in WatchedKeys, body \in WatchBodies : IngressCreated(k, body)
    \/ \E k \in WatchedKeys, body \in WatchBodies : IngressUpdated(k, body)
    \/ \E k \in WatchedKeys : IngressDeleted(k)
    \/ Probe
    \/ \E k \in WatchedKeys, api \in WatchAPIs : TimerFire(k, api)
    \/ \E raises \in BOOLEAN, api \in WatchAPIs : BgFire(raises, api)
    \/ LookupReturn
    \/ \E outcome \in SendOutcomes : BgSendDone(outcome)
    \/ \E k \in WatchedKeys, outcome \in SendOutcomes : TimerSendDone(k, outcome)
    \/ Cancel

Spec == Init /\ [][Next]_vars

\* ---------------------------------------------------------------------
\* SpecTimers: the watch events and the timer handlers of two resources,
\* the background task being cancelled before its first cycle.
\* ---------------------------------------------------------------------
NextTimers ==
    \/ Tick
    \/ \E k \in Keys, body \in WatchBodies : IngressCreated(k, body)
    \/ \E k \in Keys, body \in WatchBodies : IngressUpdated(k, body)
    \/ \E k \in Keys : IngressDeleted(k)
    \/ \E k \in Keys, api \in WatchAPIs : TimerFire(k, api)
    \/ LookupReturn
    \/ \E k \in Keys, outcome \in SendOutcomes : TimerSendDone(k, outcome)
    \/ Cancel

SpecTimers == Init /\ [][NextTimers]_vars

\* ---------------------------------------------------------------------
\* SpecBuild: build_report over bounded inputs
\* ---------------------------------------------------------------------
MaxRules == 2

RuleChoices == {[host |-> "a.example.com"], [host |-> "b.example.com"],
                [host |-> ""], [path |-> "/"]}
RuleLists == UNION {[1..n -> RuleChoices] : n \in 0..MaxRules}

TlsChoices == {<<>>,
               <<[secretName |-> "cert1"]>>,
               <<[secretName |-> "cert2"], [secretName |-> "cert1"]>>,
               <<[hosts |-> <<"a.example.com">>]>>}

\* Malformed bodies: processing them raises in extract_hosts or, after
\* the hosts were extracted, in get_tls_secret_name.
FaultyBodies ==
    {[spec |-> Null],
     [spec |-> [rules |-> NullList]],
     [spec |-> [rules |-> <<[host |-> "a.example.com"], Null>>]],
     [spec |-> [rules |-> <<Null, [host |-> "a.example.com"]>>,
                tls   |-> <<[secretName |-> "cert1"]>>]],
     [spec |-> [rules |-> <<[host |-> "a.example.com"]>>, tls |-> <<Null>>]]}

BuildBodies ==
    {[spec |-> [rules |-> r, tls |-> t]] : r \in RuleLists, t \in TlsChoices}
    \cup {[spec |-> [rules |-> r]] : r \in RuleLists}
    \cup {[spec |-> [tls |-> t]] : t \in TlsChoices}
    \cup {[metadata |-> [name |-> "ing1"]]}
    \cup FaultyBodies
    \cup {[spec |-> [rules |-> <<[host |-> "a.example.com"]>>, tls |-> NullList]],
          [spec |-> [rules |-> <<[path |-> "/"]>>, tls |-> <<Null>>]]}

\* The bodies of the second resource of a two-resource index.
OtherBodies == {[spec |-> [rules |-> <<[host |-> "c.example.com"]>>,
                           tls   |-> <<[secretName |-> "cert1"]>>]],
                [spec |-> [rules |-> <<>>]]}

Key1 == <<"ns1", "ing1">>
Key2 == <<"ns2", "ing2">>

BuildIndexes ==
    {<<>>, <<[key |-> Key1, bodies |-> <<>>]>>}
    \cup {<<[key |-> Key1, bodies |-> <<b>>]>> : b \in BuildBodies}
    \cup {<<[key |-> Key1, bodies |-> <<b>>], [key |-> Key2, bodies |-> <<o>>]>> :
            b \in BuildBodies, o \in OtherBodies}
    \cup {<<[key |-> Key2, bodies |-> <<o>>], [key |-> Key1, bodies |-> <<b>>]>> :
            b \in BuildBodies, o \in OtherBodies}

SecretRefs == {<<k[1], n>> : k \in Keys, n \in {"cert1", "cert2"}}

SecretAnswers == {[status |-> "ok", data |-> {"tls.crt", "tls.key"}],
                  [status |-> "ok", data |-> {"password"}],
                  [status |-> "404"],
                  [status |-> "exception"]}

\* The secret API answers every read of one build alike, or finds the
\* secrets of namespace ns1 only.
BuildAPIs ==
    {[r \in SecretRefs |-> a] : a \in SecretAnswers}
    \cup {[r \in SecretRefs |->
             IF r[1] = "ns1" THEN [status |-> "ok", data |-> {"ca.crt"}]
             ELSE [status |-> "404"]]}

BuildClocks == {[start |-> 0, step |-> 0], [start |-> 1, step |-> 1]}

InitBuild ==
    /\ index = <<>>
    /\ _ingresses_index_storage = {}
    /\ last_report_age = AgeCap
    /\ bg = [pc |-> "initial_sleep", timer |-> TaskInitialDelay,
             report |-> NoReport, age |-> AgeCap, send_age |-> AgeCap,
             sends |-> 0, result |-> "none"]
    /\ tm = [k \in Keys |-> TimerOff]
    /\ hist = [uptime |-> 0, since_send |-> AgeCap, since_pass |-> AgeCap]
    /\ b_index \in BuildIndexes
    /\ b_out = <<>>
    /\ c_call = NoCall
    /\ reports = <<>>
    /\ r_now = 0
    /\ r_posted = <<>>
    /\ r_resp = NoResponse
    /\ r_req = [th \in Threads |-> Idle]
    /\ r_len = [th \in Threads |-> 0]

\* build_report(b_index, logger) is called, the secret API answering as api
\* and the wall clock reading as clock during the call.
Build(api, clock) ==
    /\ b_out = <<>>
    /\ b_out' = <<[api     |-> api,
                   clock   |-> clock,
                   report  |-> build_report(b_index, api, clock),
                   lookups |-> build_lookups(b_index, api, clock)]>>
    /\ UNCHANGED <<b_index, mainvars, certvars, receivervars>>

\* build_report is called again on the same index; the secret API and the
\* clock may have changed since.
Rebuild(api, clock) ==
    /\ Len(b_out) = 1
    /\ b_out' = Append(b_out, [report  |-> build_report(b_index, api, clock),
                               lookups |-> build_lookups(b_index, api, clock)])
    /\ UNCHANGED <<b_index, mainvars, certvars, receivervars>>

NextBuild ==
    \/ \E api \in BuildAPIs, clock \in BuildClocks : Build(api, clock)
    \/ \E api \in BuildAPIs, clock \in BuildClocks : Rebuild(api, clock)

SpecBuild == InitBuild /\ [][NextBuild]_vars

\* ---------------------------------------------------------------------
\* SpecCert: get_certificate_info over bounded inputs
\* ---------------------------------------------------------------------
CertNamespaces == {"ns1", "ns2"}
CertNames == {None, "", "cert1", "cert2"}

\* The secret API: uniform answers, and answers that differ by secret.
CertAnswers == SecretAnswers \cup {[status |-> "500"],
                                   [status |-> "ok", data |-> {}],
                                   [status |-> "ok", data |-> {"ca.crt"}]}
CertAPIs ==
    {[r \in SecretRefs |-> a] : a \in CertAnswers}
    \cup {[r \in SecretRefs |->
             IF r[2] = "cert1" THEN [status |-> "ok", data |-> {"tls.crt"}]
             ELSE [status |-> "500"]]}

\* Readings of datetime.utcnow(), in days.
CertNows == {0, 1}

\* get_certificate_info(namespace, secret_name, logger) is called, the
\* secret API answering as api and the wall clock reading now.
CertLookup(namespace, secret_name, api, now) ==
    /\ c_call' = [namespace   |-> namespace,
                  secret_name |-> secret_name,
                  api         |-> api,
                  now         |-> now,
                  result      |-> get_certificate_info(namespace, secret_name,
                                                       api, now)]
    /\ UNCHANGED <<mainvars, buildvars, receivervars>>

NextCert ==
    \E namespace \in CertNamespaces, secret_name \in CertNames,
       api \in CertAPIs, now \in CertNows :
        CertLookup(namespace, secret_name, api, now)

SpecCert == Init /\ [][NextCert]_vars

\* ---------------------------------------------------------------------
\* The receiver (src/receiver/app.py)
\*
\* A request body is NoBody (no JSON in the request: request.get_json()
\* raises) or a JSON value, a record of its type and, in a field named
\* after the type, its content.  A stored report is
\* [timestamp, report].  Requests are served by threads, a handler's
\* reads and writes of the buffer being steps of their own.
\* ---------------------------------------------------------------------
\* MAX_REPORTS is read from the environment (default "100"); the model
\* runs the configuration MAX_REPORTS=2.
MAX_REPORTS == 2

\* The accepted POSTs and the clock readings a behaviour may have.
MaxPosts == 3
MaxClock == 1

NoBody == [type |-> "<no json>"]

JsonObject(fields) == [type |-> "object", object |-> fields]

\* Mutant: "if data is None" in place of "if not data".
JsonTruthy_notnull(data) == data.type # "null"

\* Python truthiness of a parsed JSON value ("if not data").
JsonTruthy(data) ==
    CASE data.type = "object" -> DOMAIN data.object # {}
      [] data.type = "array"  -> Len(data.array) > 0
      [] data.type = "number" -> data.number # 0
      [] data.type = "string" -> data.string # ""
      [] data.type = "bool"   -> data.bool
      [] OTHER                -> FALSE          \* null

FalsyBodies == {JsonObject(<<>>),
                [type |-> "array", array |-> <<>>],
                [type |-> "number", number |-> 0],
                [type |-> "string", string |-> ""],
                [type |-> "bool", bool |-> FALSE],
                [type |-> "null"]}

ReportBodies ==
    {JsonObject([cluster |-> CLUSTER_NAME, ingresses |-> <<>>]),
     JsonObject([cluster |-> CLUSTER_NAME,
                 ingresses |-> <<[namespace |-> "ns1", name |-> "ing1",
                                  host |-> "a.example.com"]>>]),
     JsonObject([cluster |-> "other"])}

RequestBodies == {NoBody} \cup FalsyBodies \cup ReportBodies

\* The requests the receiver routes.
PostReport(body) == [route |-> "POST /report", body |-> body]
GetListing == [route |-> "GET /"]
GetHealth  == [route |-> "GET /health"]

\* Mutant: a deque without maxlen.
DequeAppend_unbounded(dq, x) == Append(dq, x)

\* Mutant: a full deque drops the new item.
DequeAppend_dropnew(dq, x) ==
    IF Len(dq) >= MAX_REPORTS THEN dq ELSE Append(dq, x)

\* deque(maxlen=MAX_REPORTS).append(x): when the deque is full the item
\* at the left end is discarded.
DequeAppend(dq, x) ==
    IF MAX_REPORTS = 0 THEN dq
    ELSE IF Len(dq) >= MAX_REPORTS THEN Append(Tail(dq), x)
    ELSE Append(dq, x)

\* The accepted POSTs so far: the appended ones and the ones about to be.
Accepted == Len(r_posted) + Cardinality({th \in Threads : r_req[th].pc = "stamped"})

\* POST /report (receive_report), lines 27-36 in thread th: get_json, the
\* test "if not data", and for a truthy payload the timestamp, read from
\* the clock as now.  A request that is refused is answered here, and the
\* clock is not read for it.
ReceiveReport(th, body, now) ==
    /\ r_req[th] = Idle
    /\ IF body = NoBody                          \* get_json raises: except
       THEN /\ r_resp' = [to |-> PostReport(body), status |-> 500]
            /\ UNCHANGED <<r_now, r_req>>
       ELSE IF ~JsonTruthy(body)                  \* "if not data"
       THEN /\ r_resp' = [to |-> PostReport(body), status |-> 400]
            /\ UNCHANGED <<r_now, r_req>>
       ELSE /\ Accepted < MaxPosts
            /\ r_now' = now
            /\ r_req' = [r_req EXCEPT ![th] =
                            [pc |-> "stamped", body |-> body,
                             report_with_timestamp |->
                                 [timestamp |-> now, report |-> body]]]
            /\ UNCHANGED r_resp
    /\ UNCHANGED <<reports, r_posted, r_len, mainvars, buildvars, certvars>>

\* receive_report, line 37 in thread th: reports.append(...).
AppendReport(th) ==
    /\ r_req[th].pc = "stamped"
    /\ reports' = DequeAppend(reports, r_req[th].report_with_timestamp)
    /\ r_posted' = Append(r_posted, r_req[th].body)
    /\ r_len' = [r_len EXCEPT ![th] = Len(reports')]
    /\ r_req' = [r_req EXCEPT ![th] = [pc |-> "appended", body |-> @.body]]
    /\ UNCHANGED <<r_now, r_resp, mainvars, buildvars, certvars>>

\* receive_report, line 39 in thread th: len(reports) is read and the
\* request is answered.
RespondReport(th) ==
    /\ r_req[th].pc = "appended"
    /\ r_resp' = [to |-> PostReport(r_req[th].body), status |-> 200,
                  report_count |-> Len(reports)]
    /\ r_req' = [r_req EXCEPT ![th] = Idle]
    /\ r_len' = [r_len EXCEPT ![th] = 0]
    /\ UNCHANGED <<reports, r_now, r_posted, mainvars, buildvars, certvars>>

\* GET / (display_reports), line 48 in thread th: reports_list is a copy
\* of the buffer.
DisplayReports(th) ==
    /\ r_req[th] = Idle
    /\ r_req' = [r_req EXCEPT ![th] = [pc |-> "listed", reports_list |-> reports]]
    /\ UNCHANGED <<reports, r_now, r_posted, r_resp, r_len,
                   mainvars, buildvars, certvars>>

\* display_reports, lines 153-158 in thread th: the page is rendered of
\* reports_list, with the clock read as now.
RenderReports(th, now) ==
    /\ r_req[th].pc = "listed"
    /\ r_now' = now
    /\ r_resp' = [to |-> GetListing, status |-> 200,
                  listing |-> r_req[th].reports_list,
                  report_count |-> Len(r_req[th].reports_list)]
    /\ r_req' = [r_req EXCEPT ![th] = Idle]
    /\ UNCHANGED <<reports, r_posted, r_len, mainvars, buildvars, certvars>>

\* GET /health (health, lines 161-164): one read of len(reports).
Health ==
    /\ r_resp' = [to |-> GetHealth, status |-> 200, report_count |-> Len(reports)]
    /\ UNCHANGED <<reports, r_now, r_posted, r_req, r_len,
                   mainvars, buildvars, certvars>>

\* The clock does not go back between readings.
ClockReadings == {now \in r_now..(r_now + 1) : now <= MaxClock}

NextReceiver ==
    \/ \E th \in Threads, body \in RequestBodies, now \in ClockReadings :
          ReceiveReport(th, body, now)
    \/ \E th \in Threads : AppendReport(th)
    \/ \E th \in Threads : RespondReport(th)
    \/ \E th \in Threads : DisplayReports(th)
    \/ \E th \in Threads, now \in ClockReadings : RenderReports(th, now)
    \/ Health

SpecReceiver == Init /\ [][NextReceiver]_vars


\* The scheduling the fairness of LiveSpec stands for: time passes; a
\* secret read that was issued returns or raises; the POST of send_report
\* ends (timeout=10); and the event loop, which runs its ready callbacks
\* in turn, runs a callback that is ready (a sleep that ran out, a finished
\* executor call) at the latest when it is next free, hence the strong
\* fairness of the actions that wait for the loop.
LiveSpec ==
    /\ Spec
    /\ WF_vars(Tick)
    /\ WF_vars(LookupReturn)
    /\ SF_vars(\E raises \in BOOLEAN, api \in WatchAPIs : BgFire(raises, api))
    /\ SF_vars(\E k \in WatchedKeys, api \in WatchAPIs : TimerFire(k, api))
    /\ SF_vars(\E outcome \in SendOutcomes : BgSendDone(outcome))
    /\ SF_vars(\E k \in WatchedKeys, outcome \in SendOutcomes : TimerSendDone(k, outcome))

\* =====================================================================
\* Properties
\* =====================================================================
\* The rules of a body, as the resource declares them.
RulesOf(body) ==
    IF "spec" \in DOMAIN body /\ "rules" \in DOMAIN body.spec
       /\ body.spec.rules # NullList
    THEN body.spec.rules ELSE <<>>

IsHostRule(rule) == "host" \in DOMAIN rule /\ rule.host # ""

\* The non-empty hosts of a body in rule order, duplicates kept.
HostsOf(body) ==
    LET hostrules == SelectSeq(RulesOf(body), IsHostRule)
    IN  [i \in 1..Len(hostrules) |-> hostrules[i].host]

\* The first TLS block's secret name of a body, "" when there is none.
SecretOf(body) ==
    IF "spec" \in DOMAIN body /\ "tls" \in DOMAIN body.spec
       /\ body.spec.tls # NullList /\ Len(body.spec.tls) > 0 /\ "secretName" \in DOMAIN body.spec.tls[1]
    THEN body.spec.tls[1].secretName ELSE ""

\* The entries of a report that carry the identity key.
EntriesFor(report, key) ==
    LET Mine(e) == e.namespace = key[1] /\ e.name = key[2]
    IN  SelectSeq(report.ingresses, Mine)

\* The items of an index that hold a well-formed resource with at least
\* one host.
WithHosts(idx) ==
    {i \in 1..Len(idx) : /\ idx[i].bodies # <<>>
                         /\ idx[i].bodies[1] \notin FaultyBodies
                         /\ HostsOf(idx[i].bodies[1]) # <<>>}

\* report has entries for every resource of idx that has a host.
Covers(report, idx) ==
    \A i \in WithHosts(idx) : EntriesFor(report, idx[i].key) # <<>>

\* Trigger record t becomes t2 by calling send_report.
SendStarted(t, t2) ==
    t2.pc = "delivering" /\ (t.pc # "delivering" \/ t2.sends > t.sends)

AnySendStarted ==
    SendStarted(bg, bg') \/ \E k \in Keys : SendStarted(tm[k], tm'[k])

\* Trigger record t becomes t2 by starting a cycle (a build).
CycleStarted(t, t2) == t.age # 0 /\ t2.age = 0

AnyCycleStarted ==
    CycleStarted(bg, bg') \/ \E k \in Keys : CycleStarted(tm[k], tm'[k])

\* ---------------------------------------------------------------------
\* C1: across the background loop and the timer handlers, every call of
\* send_report comes at least REPORT_INTERVAL seconds after the previous
\* one (at most one delivery in any window of REPORT_INTERVAL seconds).
C1_OneDeliveryPerInterval ==
    [][AnySendStarted => hist.since_send >= REPORT_INTERVAL]_vars

\* ---------------------------------------------------------------------
\* C2: a cycle of the background loop that follows another one starts its
\* build no later than REPORT_INTERVAL seconds after that one started,
\* however long the delivery took.
C2_NextCycleOnTime ==
    [][(CycleStarted(bg, bg') /\ bg.pc \in {"sleep", "except_sleep"})
          => bg.age <= REPORT_INTERVAL]_vars

\* ---------------------------------------------------------------------
\* C3: the report a cycle builds has the entries of every resource that is
\* in the index with at least one host when the cycle builds.
C3_ReportReflectsIndex ==
    [][/\ (CycleStarted(bg, bg') /\ bg'.pc \in {"building", "delivering"})
            => Covers(bg'.report, index)
       /\ \A k \in Keys :
            (CycleStarted(tm[k], tm'[k])
                /\ tm'[k].pc \in {"building", "delivering"})
            => Covers(tm'[k].report, index)]_vars

\* ---------------------------------------------------------------------
\* C4: no trigger starts a build or calls send_report before the process
\* has been up for REPORT_INTERVAL seconds.
C4_NoReportBeforeFirstInterval ==
    [][(AnyCycleStarted \/ AnySendStarted)
          => hist.uptime >= REPORT_INTERVAL]_vars

\* The background loop and a timer handler both deliver the report they
\* built exactly REPORT_INTERVAL seconds after the start.
C4_Witness ==
    /\ hist.uptime = REPORT_INTERVAL
    /\ bg.pc = "delivering"
    /\ \E k \in Keys : tm[k].pc = "delivering"

\* ---------------------------------------------------------------------
\* C5: the background loop survives every exception of a cycle: unless it
\* is cancelled, it starts a cycle again and again (bg.age = 0 holds at the
\* instant a cycle starts).
C5_LoopNeverDies == <>[](bg.pc = "cancelled") \/ []<>(bg.age = 0)

\* A cycle raised, the exception was caught, and the loop slept the whole
\* interval after it: the next cycle is due.
C5_Witness == bg.pc = "except_sleep" /\ bg.timer = 0 /\ index = <<>>

\* ---------------------------------------------------------------------
\* C6 as stated: a cancellation takes effect only while the loop sleeps
\* between cycles.
C6_CancelOnlyWhileSleeping ==
    [][(bg.pc # "cancelled" /\ bg'.pc = "cancelled") => BgSleeping]_vars

\* C6 as amended: a cancellation takes effect only at an await of the loop
\* (a sleep, or the wait for the executor that runs send_report), never
\* during the build; after it the loop starts no build and no delivery.
C6_CancelOnlyAtAwait ==
    [][/\ (bg.pc # "cancelled" /\ bg'.pc = "cancelled")
            => (BgSleeping \/ bg.pc = "delivering")
       /\ bg.pc = "cancelled"
            => (bg'.pc = "cancelled" /\ ~CycleStarted(bg, bg')
                /\ ~SendStarted(bg, bg'))]_vars

\* The loop was cancelled while it waited for a delivery: the report it
\* had handed to the executor is still there.
C6_Witness == bg.pc = "cancelled" /\ bg.report # NoReport

\* ---------------------------------------------------------------------
\* C7: a cycle calls send_report at most once; send_report answers a
\* transport error or a non-2xx response with False and does not raise;
\* and a trigger calls send_report again only REPORT_INTERVAL seconds or
\* more after its previous call.
C7_NoRetryWithinCycle ==
    /\ [](/\ bg.sends <= 1
          /\ \A k \in Keys : tm[k].sends <= 1
          /\ \A outcome \in {"non2xx", "transport"} :
                send_report(bg.report, outcome) = [raised |-> FALSE, value |-> FALSE])
    /\ [][/\ SendStarted(bg, bg') => bg.send_age >= REPORT_INTERVAL
          /\ \A k \in Keys :
                SendStarted(tm[k], tm'[k]) => tm[k].send_age >= REPORT_INTERVAL]_vars

\* A delivery of the background loop failed, the loop slept the whole
\* interval, and its next cycle is due.
C7_Witness ==
    bg.pc = "sleep" /\ bg.result = "False" /\ bg.timer = 0 /\ bg.sends = 1

\* ---------------------------------------------------------------------
\* C8: while a secret lookup of a build is outstanding, the event loop can
\* still run its other callbacks (here the probe handler).
C8_LookupDoesNotStallLoop ==
    (bg.pc = "building" \/ \E k \in Keys : tm[k].pc = "building")
        => ENABLED Probe

\* ---------------------------------------------------------------------
\* C9: no build of an index has an entry for a resource without hosts:
\* every entry is for an indexed resource with at least one non-empty
\* host and carries a non-empty host, in every build of the same index.
C9_NoEntryWithoutHosts ==
    \A n \in 1..Len(b_out) :
        /\ \A i \in 1..Len(b_index) :
              i \notin WithHosts(b_index)
                  => EntriesFor(b_out[n].report, b_index[i].key) = <<>>
        /\ \A j \in 1..Len(b_out[n].report.ingresses) :
              LET e == b_out[n].report.ingresses[j]
              IN  /\ e.host # "" /\ e.host # None
                  /\ \E i \in WithHosts(b_index) :
                        b_index[i].key = <<e.namespace, e.name>>

\* An index with a resource that has rules but no host and a resource
\* with a host was built twice, with different reports.
C9_Witness ==
    /\ Len(b_out) = 2
    /\ b_out[1].report # b_out[2].report
    /\ b_out[1].report.ingresses # <<>>
    /\ \E i \in 1..Len(b_index) :
          /\ i \notin WithHosts(b_index)
          /\ b_index[i].bodies # <<>>
          /\ RulesOf(b_index[i].bodies[1]) # <<>>

\* ---------------------------------------------------------------------
\* C10: a resource with N >= 1 non-empty hosts gets exactly N entries, one
\* per host in rule order with duplicates kept; they all carry one and the
\* same certificate descriptor when the certificate resolves and none has
\* a certificate field when it does not.
Resolves(api, namespace, secret_name) ==
    /\ secret_name # ""
    /\ api[<<namespace, secret_name>>].status = "ok"
    /\ api[<<namespace, secret_name>>].data \cap {"tls.crt", "ca.crt"} # {}

C10_EntriesPerHost ==
    \A n \in 1..Len(b_out) : \A i \in WithHosts(b_index) :
        LET body  == b_index[i].bodies[1]
            hosts == HostsOf(body)
            es    == EntriesFor(b_out[n].report, b_index[i].key)
        IN  /\ Len(es) = Len(hosts)
            /\ \A j \in 1..Len(es) : es[j].host = hosts[j]
            /\ \/ \A j \in 1..Len(es) : "certificate" \notin DOMAIN es[j]
               \/ \A j \in 1..Len(es) :
                     /\ "certificate" \in DOMAIN es[j]
                     /\ es[j].certificate = es[1].certificate
                     /\ es[j].certificate.name = SecretOf(body)
            /\ n = 1 =>
                 ("certificate" \in DOMAIN es[1]
                    <=> Resolves(b_out[1].api, b_index[i].key[1], SecretOf(body)))

\* A resource that names the same host in two rules and whose certificate
\* resolves was built while the clock moved between reads.
C10_Witness ==
    /\ Len(b_out) >= 1
    /\ b_out[1].clock.step > 0
    /\ \E i \in WithHosts(b_index) :
          LET hosts == HostsOf(b_index[i].bodies[1])
              es    == EntriesFor(b_out[1].report, b_index[i].key)
          IN  /\ Len(hosts) = 2 /\ hosts[1] = hosts[2]
              /\ Len(es) = 2 /\ "certificate" \in DOMAIN es[1]

\* ---------------------------------------------------------------------
\* C11: get_certificate_info does not raise; it returns the descriptor
\* {name: secret_name, expires: now + 90 days} exactly when the name is
\* non-empty, the read succeeds and the data has tls.crt or ca.crt, and
\* absent in every other case.
C11_CertificateInfoContract ==
    c_call # NoCall =>
        LET found == /\ c_call.secret_name # None
                     /\ c_call.secret_name # ""
                     /\ Resolves(c_call.api, c_call.namespace, c_call.secret_name)
        IN  /\ c_call.result # Raised
            /\ found => c_call.result = [name    |-> c_call.secret_name,
                                         expires |-> c_call.now + EXPIRY_DAYS]
            /\ ~found => c_call.result = Absent

\* A read that failed with a status other than 404 gave absent.
C11_Witness ==
    /\ c_call # NoCall
    /\ c_call.secret_name = "cert2"
    /\ c_call.api[<<c_call.namespace, "cert2">>].status = "500"
    /\ c_call.result = Absent

\* ---------------------------------------------------------------------
\* C12: a malformed resource is isolated: the build returns a report, the
\* report has no entry for the malformed resource, and for every other
\* resource it has exactly the entries of the build of the index without
\* the malformed resource (same secret API, same clock).
C12_FaultIsolated ==
    (Len(b_out) >= 1) =>
        \A i \in 1..Len(b_index) :
            (b_index[i].bodies # <<>> /\ b_index[i].bodies[1] \in FaultyBodies) =>
                LET report  == b_out[1].report
                    without == build_report(Without(b_index, b_index[i].key),
                                            b_out[1].api, b_out[1].clock)
                IN  /\ report.cluster = CLUSTER_NAME
                    /\ EntriesFor(report, b_index[i].key) = <<>>
                    /\ report.ingresses = without.ingresses

\* A malformed resource that faults after its hosts were extracted comes
\* first in the index, and the resource after it is reported with its
\* certificate.
C12_Witness ==
    /\ Len(b_out) >= 1
    /\ Len(b_index) = 2
    /\ b_index[1].bodies[1] \in FaultyBodies
    /\ extract_hosts(b_index[1].bodies[1]) # <<>>
    /\ Len(b_out[1].report.ingresses) = 1
    /\ "certificate" \in DOMAIN b_out[1].report.ingresses[1]

\* ---------------------------------------------------------------------
\* C13: every report build_report returns is a dict with exactly the
\* configured cluster identifier and an ingresses sequence, and the report
\* of the empty index is {cluster: CLUSTER_NAME, ingresses: []}.
C13_ReportShape ==
    \A n \in 1..Len(b_out) :
        LET report == b_out[n].report
        IN  /\ DOMAIN report = {"cluster", "ingresses"}
            /\ report.cluster = CLUSTER_NAME
            /\ DOMAIN report.ingresses = 1..Len(report.ingresses)
            /\ b_index = <<>> =>
                  report = [cluster |-> CLUSTER_NAME, ingresses |-> <<>>]

\* The empty index was built twice.
C13_Witness ==
    /\ b_index = <<>>
    /\ Len(b_out) = 2
    /\ b_out[2].report.ingresses = <<>>

\* ---------------------------------------------------------------------
\* C14: the receiver's buffer is a bounded FIFO: it holds at most
\* MAX_REPORTS stored reports, and they are the last min(n, MAX_REPORTS)
\* of the n accepted payloads, in arrival order.
LastAccepted ==
    LET n == Len(r_posted)
        m == Min(n, MAX_REPORTS)
    IN  [i \in 1..m |-> r_posted[n - m + i]]

C14_BoundedFifo ==
    /\ Len(reports) <= MAX_REPORTS
    /\ Len(reports) = Min(Len(r_posted), MAX_REPORTS)
    /\ [i \in 1..Len(reports) |-> reports[i].report] = LastAccepted

\* Three different reports were accepted and the buffer holds the last
\* two: the first one was evicted.
C14_Witness ==
    /\ Len(r_posted) = 3
    /\ r_posted[1] # r_posted[2] /\ r_posted[2] # r_posted[3]
    /\ r_posted[1] # r_posted[3]
    /\ Len(reports) = 2
    /\ reports[1].report = r_posted[2]
    /\ reports[2].report = r_posted[3]
    /\ r_resp = [to |-> GetListing, status |-> 200, listing |-> reports,
                 report_count |-> 2]

\* ---------------------------------------------------------------------
\* C15: the index holds at most one snapshot per identity, and every
\* change of it is a create (a new identity with the delivered body), an
\* update (the identity's snapshot becomes the delivered body, whole) or a
\* delete (the identity's item is gone); nothing else changes.
OneSnapshotEach ==
    /\ \A i, j \in 1..Len(index) : index[i].key = index[j].key => i = j
    /\ \A i \in 1..Len(index) :
          Len(index[i].bodies) = 1 /\ index[i].bodies[1] \in WatchBodies

IndexCreate ==
    \E k \in Keys, body \in WatchBodies :
        /\ \A i \in 1..Len(index) : index[i].key # k
        /\ index' = Append(index, [key |-> k, bodies |-> <<body>>])

IndexUpdate ==
    \E i \in 1..Len(index), body \in WatchBodies :
        index' = [index EXCEPT ![i] = [key |-> index[i].key, bodies |-> <<body>>]]

IndexDelete ==
    \E i \in 1..Len(index) :
        index' = [j \in 1..(Len(index) - 1) |->
                    IF j < i THEN index[j] ELSE index[j + 1]]

C15_OneSnapshotPerIdentity ==
    /\ []OneSnapshotEach
    /\ [][index' # index => (IndexCreate \/ IndexUpdate \/ IndexDelete)]_vars

\* Both resources were created, the timer of ns1/ing1 built a report with
\* an entry of each, then ns2/ing2 was updated to a body without hosts and
\* ns1/ing1 was deleted.
C15_Witness ==
    /\ index = <<[key |-> Key2, bodies |-> <<BodyNoHosts>>]>>
    /\ tm[Key1].pc = "delivering"
    /\ Len(tm[Key1].report.ingresses) = 2

\* ---------------------------------------------------------------------
\* C16: an invocation of the timer handler less than REPORT_INTERVAL - 1
\* seconds after the last report is a no-op: it starts no build and no
\* delivery and leaves _last_report_time and _ingresses_index_storage as
\* they were.
\* The handler of resource k runs in this step.
HandlerInvoked(k) ==
    /\ LoopFree
    /\ tm[k].pc = "waiting" /\ tm[k].timer = 0
    /\ tm'[k] # tm[k]
    /\ tm'[k].pc # "off"

C16_TooSoonIsNoOp ==
    [][\A k \in Keys :
          (HandlerInvoked(k) /\ last_report_age < REPORT_INTERVAL - 1)
            => /\ tm'[k].pc = "waiting"
               /\ tm'[k].report = NoReport
               /\ ~AnyCycleStarted /\ ~AnySendStarted
               /\ last_report_age' = last_report_age
               /\ _ingresses_index_storage' = _ingresses_index_storage
               /\ index' = index /\ bg' = bg]_vars

\* A handler returned at the guard while the report of the other
\* resource's handler, built less than REPORT_INTERVAL - 1 seconds ago, is
\* being delivered.
C16_Witness ==
    \E k, other \in Keys :
        /\ tm[k].pc = "waiting" /\ tm[k].result = "skipped"
        /\ tm[k].timer = REPORT_INTERVAL
        /\ last_report_age < REPORT_INTERVAL - 1
        /\ tm[other].pc = "delivering"

\* ---------------------------------------------------------------------
\* C17: each trigger cycles WAITING -> BUILDING -> DELIVERING -> WAITING:
\* a delivery starts only from a build of the same cycle and sends the
\* report that build produced (a report of the index as it is at the
\* build); a build is followed by its delivery and by nothing else; a
\* cycle calls send_report once; and the background loop is always in one
\* of the states of the cycle unless it was cancelled.
Resting(t) == t.pc \in {"initial_sleep", "sleep", "except_sleep", "waiting"}

\* The reports a build of index idx can produce.
BuildsOf(idx) == {build_report(idx, api, BuildClock) : api \in WatchAPIs}

CycleOrder(t, t2, idx) ==
    /\ SendStarted(t, t2) =>
          /\ t2.sends = 1
          /\ \/ t.pc = "building" /\ t2.report = t.report
             \/ Resting(t) /\ CycleStarted(t, t2) /\ t2.report \in BuildsOf(idx)
    /\ (CycleStarted(t, t2) /\ t2.report # NoReport) =>
          /\ Resting(t)
          /\ t2.pc \in {"building", "delivering"}
          /\ t2.report \in BuildsOf(idx)
    /\ t.pc = "building" =>
          (t2 = t \/ (t2.pc = "delivering" /\ t2.report = t.report)
                  \/ (t2.pc = "building" /\ t2.report = t.report))
    /\ (t.pc = "delivering" /\ t2.pc = "delivering") => t2.report = t.report
    /\ t.pc = "delivering" => (t2.pc \in {"delivering", "cancelled", "off"}
                                \/ Resting(t2))

C17_CycleOrder ==
    /\ [](bg.pc \in {"initial_sleep", "building", "delivering", "sleep",
                      "except_sleep", "cancelled"})
    /\ [][/\ \E idx \in TaskIndex(_ingresses_index_storage, index) :
                CycleOrder(bg, bg', idx)
          /\ \A k \in Keys : CycleOrder(tm[k], tm'[k], index)]_vars

\* The timer handler went through a whole cycle with a secret lookup and
\* a successful delivery, and the background loop is delivering a report
\* with an entry that it built after a secret lookup.
C17_Witness ==
    /\ bg.pc = "delivering"
    /\ bg.report.ingresses # <<>>
    /\ \E k \in Keys : tm[k].pc = "waiting" /\ tm[k].result = "True"

\* ---------------------------------------------------------------------
\* C18: no torn entry: every entry of a report has the namespace and name
\* of a resource that is in the index when the report is built, a host of
\* that resource's body and, if it has a certificate, the secret name of
\* the same body; and the index does not change between the start of a
\* build and its end (build_report has no suspension point).
EntryOfIndex(e, idx) ==
    \E i \in 1..Len(idx) :
        /\ idx[i].key = <<e.namespace, e.name>>
        /\ \E j \in 1..Len(HostsOf(idx[i].bodies[1])) :
              HostsOf(idx[i].bodies[1])[j] = e.host
        /\ "certificate" \in DOMAIN e =>
              e.certificate.name = SecretOf(idx[i].bodies[1])

Whole(report, idx) ==
    \A n \in 1..Len(report.ingresses) : EntryOfIndex(report.ingresses[n], idx)

BuildInProgress == bg.pc = "building" \/ \E k \in Keys : tm[k].pc = "building"

C18_NoTornEntry ==
    [][/\ CycleStarted(bg, bg') => Whole(bg'.report, index)
       /\ \A k \in Keys : CycleStarted(tm[k], tm'[k]) => Whole(tm'[k].report, index)
       /\ BuildInProgress =>
            /\ index' = index
            /\ bg'.pc = "building" => Whole(bg'.report, index')
            /\ \A k \in Keys :
                  tm'[k].pc = "building" => Whole(tm'[k].report, index')]_vars

\* A build of an index of two resources is waiting for its secret reads,
\* with an entry of each resource in the report.
C18_Witness ==
    /\ Len(index) = 2
    /\ \E k \in Keys :
          /\ tm[k].pc = "building"
          /\ Len(tm[k].report.ingresses) = 2
          /\ tm[k].report.ingresses[1].name # tm[k].report.ingresses[2].name

\* ---------------------------------------------------------------------
\* C19: a build looks up one secret per well-formed resource that has a
\* host and a non-empty first secret name (the first TLS block's, once,
\* however many hosts and TLS blocks there are), in index order, and makes
\* no other lookup.
RECURSIVE ExpectedLookups(_)
ExpectedLookups(idx) ==
    IF idx = <<>> THEN <<>>
    ELSE LET item == Head(idx)
             mine == IF /\ item.bodies # <<>>
                        /\ item.bodies[1] \notin FaultyBodies
                        /\ HostsOf(item.bodies[1]) # <<>>
                        /\ SecretOf(item.bodies[1]) # ""
                     THEN <<<<item.key[1], SecretOf(item.bodies[1])>>>>
                     ELSE <<>>
         IN  mine \o ExpectedLookups(Tail(idx))

C19_OneLookupPerResource ==
    \A n \in 1..Len(b_out) : b_out[n].lookups = ExpectedLookups(b_index)

\* A resource with two hosts and two TLS blocks was built with a single
\* lookup, of the first block's secret.
C19_Witness ==
    /\ Len(b_out) >= 1
    /\ Len(b_index) = 1
    /\ b_index[1].bodies # <<>>
    /\ Len(HostsOf(b_index[1].bodies[1])) = 2
    /\ SecretOf(b_index[1].bodies[1]) = "cert2"
    /\ Len(b_out[1].report.ingresses) = 2
    /\ b_out[1].lookups = <<<<"ns1", "cert2">>>>

\* ---------------------------------------------------------------------
\* C20: any two invocations of the timer handler that pass the guard,
\* whichever resources' timers they belong to, are at least
\* REPORT_INTERVAL - 1 seconds apart: an invocation passes (and starts a
\* build) only when that long has gone by since the last one passed.
C20_PassesApart ==
    [][\A k \in Keys :
          (HandlerInvoked(k) /\ tm'[k].pc \in {"building", "delivering"})
            => /\ hist.since_pass >= REPORT_INTERVAL - 1
               /\ hist'.since_pass = 0
               /\ \A other \in Keys :
                     other # k => tm[other].age >= REPORT_INTERVAL - 1]_vars

\* The timers of the two resources passed the guard exactly
\* REPORT_INTERVAL - 1 seconds apart.
C20_Witness ==
    \E k, other \in Keys :
        /\ tm[k].age = 0 /\ tm[k].pc \in {"building", "delivering"}
        /\ tm[other].age = REPORT_INTERVAL - 1
        /\ tm[other].pc # "off"
        /\ hist.since_pass = 0

\* ---------------------------------------------------------------------
\* C21: _last_report_time is written only by a timer-handler invocation
\* that passes the guard, in the step in which it passes (before the
\* build's secret reads return and before the delivery): the age of the
\* stamp is always the time since a handler last passed, whatever the
\* builds and the deliveries did afterwards, and every other step leaves
\* the stamp alone (its age only grows with the clock).
HandlerPassed(k) ==
    HandlerInvoked(k) /\ tm'[k].pc \in {"building", "delivering"}

C21_StampOnlyOnPass ==
    /\ [](last_report_age = hist.since_pass)
    /\ [][/\ (\E k \in Keys : HandlerPassed(k)) => last_report_age' = 0
          /\ last_report_age' # last_report_age =>
                \/ \E k \in Keys : HandlerPassed(k)
                \/ /\ last_report_age' = Older(last_report_age)
                   /\ bg'.pc = bg.pc
                   /\ _ingresses_index_storage' = _ingresses_index_storage
                   /\ index' = index]_vars

\* A timer handler passed the guard, its delivery failed, and the stamp
\* still tells the time of that pass; the background loop has started a
\* cycle of its own since, inside the window the guard closes.
C21_Witness ==
    /\ \E k \in Keys :
          /\ tm[k].pc = "waiting" /\ tm[k].result = "False"
          /\ tm[k].age = last_report_age
    /\ last_report_age < REPORT_INTERVAL - 1
    /\ bg.age < last_report_age
    /\ bg.pc = "delivering"

\* ---------------------------------------------------------------------
\* C22: a POST /report without JSON or with falsy JSON is answered with an
\* error status and leaves the buffer as it is; an accepted POST appends
\* exactly one stored report, the request's payload, and answers with
\* report_count = the buffer's length when the answer is built, which is
\* at least the length right after the request's own append and at most
\* MAX_REPORTS; GET / and GET /health leave the buffer as it is, and
\* /health answers with the buffer's length.
Answered == r_resp # NoResponse

\* Thread th appends the report of its POST in this step.
Appends(th) == r_req[th].pc = "stamped" /\ r_req'[th].pc = "appended"

\* Thread th answers its accepted POST in this step.
Answers(th) == r_req[th].pc = "appended" /\ r_req'[th].pc = "idle"

\* The steps a request thread takes through its handler.
HandlerSteps == {<<"idle", "stamped">>, <<"stamped", "appended">>,
                 <<"appended", "idle">>, <<"idle", "listed">>,
                 <<"listed", "idle">>}

C22_ReceiverRequests ==
    /\ []((/\ Answered
            /\ r_resp.to.route = "POST /report"
            /\ r_resp.to.body \in {NoBody} \cup FalsyBodies)
               => r_resp.status >= 400)
    /\ [][/\ \A th \in Threads :
                r_req'[th].pc # r_req[th].pc
                   => <<r_req[th].pc, r_req'[th].pc>> \in HandlerSteps
          /\ (reports' # reports \/ r_posted' # r_posted)
                => \E th \in Threads : Appends(th)
          /\ \A th \in Threads :
                Appends(th)
                   => /\ JsonTruthy(r_req[th].body)
                      /\ r_posted' = Append(r_posted, r_req[th].body)
                      /\ \E stored \in {reports'[Len(reports')]} :
                            /\ stored.report = r_req[th].body
                            /\ reports' = IF Len(reports) < MAX_REPORTS
                                          THEN Append(reports, stored)
                                          ELSE Append(Tail(reports), stored)
                      /\ r_resp' = r_resp
          /\ \A th \in Threads :
                Answers(th)
                   => /\ r_resp' = [to |-> PostReport(r_req[th].body),
                                     status |-> 200,
                                     report_count |-> Len(reports)]
                      /\ r_len[th] >= 1
                      /\ r_len[th] <= r_resp'.report_count
                      /\ r_resp'.report_count <= MAX_REPORTS
          /\ (r_resp' # r_resp /\ r_resp'.to.route = "POST /report"
                              /\ r_resp'.status = 200)
                => \E th \in Threads : Answers(th)
          /\ (r_resp' # r_resp /\ r_resp'.to.route = "GET /health")
                => /\ r_resp'.status = 200
                   /\ r_resp'.report_count = Len(reports)]_vars

\* Two POSTs overlapped: both were appended before either was answered,
\* and the answer to the one appended first counts both.
C22_Witness ==
    /\ Len(r_posted) = 2
    /\ r_posted[1] # r_posted[2]
    /\ Answered
    /\ r_resp.to = PostReport(r_posted[1])
    /\ r_resp.status = 200
    /\ r_resp.report_count = 2
    /\ \E th \in Threads :
          /\ r_req[th].pc = "appended"
          /\ r_req[th].body = r_posted[2]
          /\ r_len[th] = 2

\* C22 as first stated: an accepted POST answers with the length the
\* buffer had right after the request's own append.
C22_CountIsLengthAfterAppend ==
    [][\A th \in Threads :
          Answers(th) => r_resp'.report_count = r_len[th]]_vars

====
